---- MODULE Spec2Model ----
(***************************************************************************)
(* Rules engine of the Klondike solitaire game (utils/gameEngine.ts):      *)
(* the dealer (createInitialGameState / GameEngine.initializeGame), the    *)
(* move validator/executor (makeMove, isValidMove), the snapshot history   *)
(* (undo) and the move enumerator (getAllPossibleMoves).                   *)
(*                                                                         *)
(* A card object is identified by its index 0..51 in createDeck order      *)
(* (suit-major, rank-minor).  Card objects are shared by reference between *)
(* the piles of the current board and the piles of every history entry,    *)
(* so the mutable faceUp flag is kept once per card: faceUp is the set of   *)
(* cards whose flag is true.                                               *)
(***************************************************************************)
EXTENDS Integers, Sequences, FiniteSets, TLC

\* gameState: the GameState object the caller holds (piles, counters, flags,
\*   history) together with the faceUp flags of the card objects it refers to
\* result: what the last engine call returned, and the move it was given
\*   when it accepted that move
\* origin: the constructor that dealt the board
\* before: the board the last call was made on when that call was makeMove
\*   (observation only, never read by the engine)
VARIABLES gameState, result, origin, before

vars == <<gameState, result, origin, before>>

(***************************************************************************)
(* Bounds of the exploration.                                              *)
(***************************************************************************)
\* longest history stack explored (makeMove pushes one entry per call)
MaxHistory == 3
\* largest value of the move counter explored
MaxMoves == 3
\* callers name cards of value 1..MaxValue, the king of hearts, or no card
MaxValue == 2
\* number of leading Fisher-Yates iterations whose random draw is free
FreeDraws == 1

(***************************************************************************)
(* Cards and deck.                                                         *)
(***************************************************************************)
DeckSize == 52
NumRanks == 13
NumColumns == 7
TableauCards == 28

\* suits in SUITS order: 0 spades, 1 hearts, 2 diamonds, 3 clubs
Suits == 0 .. 3
Columns == 0 .. (NumColumns - 1)
Cards == 0 .. (DeckSize - 1)

Suit(card) == card \div NumRanks
Value(card) == (card % NumRanks) + 1
IsRed(card) == Suit(card) = 1 \/ Suit(card) = 2
IsAce(card) == Value(card) = 1
IsKing(card) == Value(card) = 13

\* a cardId that names no card of the deck
UnknownCard == 52
\* findCard's null
NoCard == 99
\* a Move without targetIndex
Undefined == 0 - 1

\* createDeck: for each suit, for each rank, deck.push(card), face-down;
\* the inner loop pushes the 13 cards of the suit in rank order
RECURSIVE DeckLoop(_, _)
DeckLoop(suit, deck) ==
  IF suit > 3 THEN deck
  ELSE DeckLoop(suit + 1,
         deck \o [rank \in 1 .. NumRanks |-> suit * NumRanks + (rank - 1)])

createDeck == DeckLoop(0, <<>>)

Swap(s, a, b) == [s EXCEPT ![a] = s[b], ![b] = s[a]]

\* shuffleDeck: Fisher-Yates, i from 51 down to 1, draws[i] is the value of
\* Math.floor(Math.random() * (i + 1)); positions are 0-based in the code.
\* ShuffleFrom(shuffled, i, last, draws) runs the iterations i, i - 1, ..,
\* last of the loop: the upper half of them, then the lower half.
RECURSIVE ShuffleFrom(_, _, _, _)
ShuffleFrom(shuffled, i, last, draws) ==
  IF i < last \/ Len(shuffled) <= 1 THEN shuffled
  ELSE IF i = last THEN Swap(shuffled, i + 1, draws[i] + 1)
  ELSE LET half == (i + last) \div 2
       IN ShuffleFrom(ShuffleFrom(shuffled, i, half + 1, draws), half, last, draws)

shuffleDeck(deck, draws) == ShuffleFrom(deck, Len(deck) - 1, 1, draws)

\* the array of the seven column arrays and the record of the four
\* foundation arrays, written out element by element
ColumnArray(tab) ==
  (0 :> tab[0]) @@ (1 :> tab[1]) @@ (2 :> tab[2]) @@ (3 :> tab[3])
    @@ (4 :> tab[4]) @@ (5 :> tab[5]) @@ (6 :> tab[6])
EmptyTableau == ColumnArray([c \in Columns |-> <<>>])
EmptyFoundations == (0 :> <<>>) @@ (1 :> <<>>) @@ (2 :> <<>>) @@ (3 :> <<>>)
AllFaceDown == {}

\* dealCards: the outer loop over col; the inner loop gives each row
\* col..6 the card deck[cardIndex], face-up iff row = col
RECURSIVE DealLoop(_, _, _, _, _)
DealLoop(deck, col, cardIndex, tab, up) ==
  IF col >= NumColumns THEN [tableau |-> tab, faceUp |-> up, cardIndex |-> cardIndex]
  ELSE DealLoop(deck, col + 1, cardIndex + (NumColumns - col),
         [row \in Columns |->
            IF row >= col THEN Append(tab[row], deck[cardIndex + (row - col) + 1])
            ELSE tab[row]],
         (up \ { deck[cardIndex + (row - col) + 1] : row \in col .. (NumColumns - 1) })
           \cup { deck[cardIndex + 1] })

\* dealCards indexing the deck by col * 7 + row instead of a running
\* cardIndex
dealCards_Indexed(deck) ==
  [tableau |-> [row \in Columns |->
                  [col \in 1 .. (row + 1) |-> deck[(col - 1) * NumColumns + row + 1]]],
   stock |-> SubSeq(deck, TableauCards + 1, Len(deck)),
   faceUp |-> { deck[row * NumColumns + row + 1] : row \in Columns }
                \ { deck[p] : p \in (TableauCards + 1) .. Len(deck) }]

\* the remaining cards are copied to the stock with faceUp: false
dealCards(deck) ==
  LET t == DealLoop(deck, 0, 0, EmptyTableau, AllFaceDown)
  IN [tableau |-> t.tableau,
      stock |-> SubSeq(deck, t.cardIndex + 1, Len(deck)),
      faceUp |-> t.faceUp \ { deck[p] : p \in (t.cardIndex + 1) .. Len(deck) }]

\* GameEngine.dealTableau: for i, for j in i..6, card deck[i * 7 + j] goes
\* to column j with card.faceUp = (i === j), set on the deck's own object
RECURSIVE DealTableauLoop(_, _, _, _)
DealTableauLoop(deck, i, tab, up) ==
  IF i >= NumColumns THEN [tableau |-> tab, faceUp |-> up]
  ELSE DealTableauLoop(deck, i + 1,
         [j \in Columns |->
            IF j >= i THEN Append(tab[j], deck[i * NumColumns + j + 1])
            ELSE tab[j]],
         (up \ { deck[i * NumColumns + j + 1] : j \in i .. (NumColumns - 1) })
           \cup { deck[i * NumColumns + i + 1] })

dealTableau(deck) == DealTableauLoop(deck, 0, EmptyTableau, AllFaceDown)

\* the draws of one shuffle: draws[i] \in 0..i
IdentityDraws == [i \in 1 .. (DeckSize - 1) |-> i]
DrawsWith(i0, j0) == [IdentityDraws EXCEPT ![i0] = j0]

\* shuffles in which only the first FreeDraws iterations draw freely
DealDraws ==
  LET free == (DeckSize - FreeDraws) .. (DeckSize - 1)
  IN { [i \in 1 .. (DeckSize - 1) |-> IF i \in free THEN f[i] ELSE i] :
         f \in { g \in [free -> Cards] : \A i \in free : g[i] <= i } }

\* the return value of the last engine call
NoMove == [type |-> "none", cardId |-> UnknownCard, targetIndex |-> Undefined]
NoResult == [op |-> "none", success |-> FALSE, threw |-> FALSE, move |-> NoMove]

\* createInitialGameState
createInitialGameState(draws) ==
  LET dealtCards == dealCards(shuffleDeck(createDeck, draws))
  IN [stock |-> dealtCards.stock, waste |-> <<>>,
      tableau |-> ColumnArray(dealtCards.tableau), foundations |-> EmptyFoundations,
      faceUp |-> dealtCards.faceUp, moves |-> 0, score |-> 0,
      isWon |-> FALSE, canUndo |-> FALSE, gameHistory |-> <<>>]

\* GameEngine.initializeGame
initializeGame(draws) ==
  LET shuffledDeck == shuffleDeck(createDeck, draws)
      dealt == dealTableau(shuffledDeck)
  IN [stock |-> SubSeq(shuffledDeck, TableauCards + 1, Len(shuffledDeck)),
      waste |-> <<>>,
      tableau |-> ColumnArray(dealt.tableau), foundations |-> EmptyFoundations,
      faceUp |-> dealt.faceUp, moves |-> 0, score |-> 0,
      isWon |-> FALSE, canUndo |-> FALSE, gameHistory |-> <<>>]

\* the state before any constructor has run
NoBoard ==
  [stock |-> <<>>, waste |-> <<>>, tableau |-> EmptyTableau,
   foundations |-> EmptyFoundations, faceUp |-> AllFaceDown, moves |-> 0,
   score |-> 0, isWon |-> FALSE, canUndo |-> FALSE, gameHistory |-> <<>>]

(***************************************************************************)
(* Sequence helpers standing for the array methods the engine uses.        *)
(***************************************************************************)
\* Array.prototype.findIndex(c => c.id === card.id), 1-based, 0 for -1
FindIndex(pile, card) ==
  IF \E p \in 1 .. Len(pile) : pile[p] = card
  THEN CHOOSE p \in 1 .. Len(pile) :
         pile[p] = card /\ \A q \in 1 .. (p - 1) : pile[q] # card
  ELSE 0

\* Array.prototype.splice(index, 1)
Splice(pile, p) == SubSeq(pile, 1, p - 1) \o SubSeq(pile, p + 1, Len(pile))

Contains(pile, card) == \E p \in 1 .. Len(pile) : pile[p] = card
Last(pile) == pile[Len(pile)]

\* gameState.tableau.flat() and Object.values(gameState.foundations).flat()
FlatTableau(tab) ==
  tab[0] \o tab[1] \o tab[2] \o tab[3] \o tab[4] \o tab[5] \o tab[6]
FlatFoundations(fnd) == fnd[0] \o fnd[1] \o fnd[2] \o fnd[3]

(***************************************************************************)
(* GameEngine: the private helpers.                                        *)
(***************************************************************************)
\* findCard: the first card with that id in stock, waste, tableau,
\* foundations, or null
findCard(b, cardId) ==
  IF Contains(b.stock \o b.waste \o FlatTableau(b.tableau)
                \o FlatFoundations(b.foundations), cardId)
  THEN cardId ELSE NoCard

\* canMoveToTableau without the colour test
canMoveToTableau_AnyColour(b, card, pile) ==
  IF Len(pile) = 0 THEN IsKing(card)
  ELSE LET topCard == Last(pile)
       IN IF topCard \notin b.faceUp THEN FALSE
          ELSE Value(card) = Value(topCard) - 1

\* canMoveToTableau(card, pile)
canMoveToTableau(b, card, pile) ==
  IF Len(pile) = 0 THEN IsKing(card)
  ELSE LET topCard == Last(pile)
       IN IF topCard \notin b.faceUp THEN FALSE
          ELSE Value(card) = Value(topCard) - 1 /\ IsRed(card) # IsRed(topCard)

\* the first tableau column / foundation holding the card, or none
FirstColumnWith(tab, card) ==
  IF \E c \in Columns : Contains(tab[c], card)
  THEN CHOOSE c \in Columns :
         Contains(tab[c], card) /\ \A d \in 0 .. (c - 1) : ~Contains(tab[d], card)
  ELSE Undefined
FirstFoundationWith(fnd, card) ==
  IF \E s \in Suits : Contains(fnd[s], card)
  THEN CHOOSE s \in Suits :
         Contains(fnd[s], card) /\ \A t \in 0 .. (s - 1) : ~Contains(fnd[t], card)
  ELSE Undefined

\* removeCardFromSource without its stock and waste branches
removeCardFromSource_TableauOnly(b, card) ==
  IF FirstColumnWith(b.tableau, card) # Undefined
  THEN [b EXCEPT !.tableau[FirstColumnWith(b.tableau, card)] =
                    Splice(@, FindIndex(@, card))]
  ELSE IF FirstFoundationWith(b.foundations, card) # Undefined
  THEN [b EXCEPT !.foundations[FirstFoundationWith(b.foundations, card)] =
                    Splice(@, FindIndex(@, card))]
  ELSE b

\* removeCardFromSource: splice the card out of the first pile that holds it,
\* searching stock, waste, tableau columns, foundations in that order
removeCardFromSource(b, card) ==
  IF Contains(b.stock, card)
  THEN [b EXCEPT !.stock = Splice(@, FindIndex(@, card))]
  ELSE IF Contains(b.waste, card)
  THEN [b EXCEPT !.waste = Splice(@, FindIndex(@, card))]
  ELSE IF FirstColumnWith(b.tableau, card) # Undefined
  THEN [b EXCEPT !.tableau[FirstColumnWith(b.tableau, card)] =
                    Splice(@, FindIndex(@, card))]
  ELSE IF FirstFoundationWith(b.foundations, card) # Undefined
  THEN [b EXCEPT !.foundations[FirstFoundationWith(b.foundations, card)] =
                    Splice(@, FindIndex(@, card))]
  ELSE b

\* getCardsToMove returning the named card alone
getCardsToMove_CardAlone(b, card) == <<card>>

\* getCardsToMove: the card and everything above it in its tableau column,
\* or the card alone when it is in no column
getCardsToMove(b, card) ==
  LET c == FirstColumnWith(b.tableau, card)
  IN IF c # Undefined
     THEN SubSeq(b.tableau[c], FindIndex(b.tableau[c], card), Len(b.tableau[c]))
     ELSE <<card>>

\* revealHiddenCards: every column's face-down top card is turned face-up,
\* +5 each
HiddenTops(b) ==
  { Last(b.tableau[c]) :
      c \in { d \in Columns : Len(b.tableau[d]) > 0 /\ Last(b.tableau[d]) \notin b.faceUp } }
\* revealHiddenCards turning up every card of a column whose top card is
\* face-down
revealHiddenCards_WholeColumn(b) ==
  LET hidden == HiddenTops(b)
  IN [b EXCEPT !.faceUp = @ \cup { card \in Cards :
                                     \E c \in Columns :
                                       /\ Contains(b.tableau[c], card)
                                       /\ Last(b.tableau[c]) \in hidden },
               !.score = @ + 5 * Cardinality(hidden)]

\* revealHiddenCards crediting the bonus without turning a card
revealHiddenCards_NoFlip(b) == [b EXCEPT !.score = @ + 5 * Cardinality(HiddenTops(b))]

\* revealHiddenCards turning the cards face-up without the score bonus
revealHiddenCards_NoBonus(b) == [b EXCEPT !.faceUp = @ \cup HiddenTops(b)]

revealHiddenCards(b) ==
  LET hidden == HiddenTops(b)
  IN [b EXCEPT !.faceUp = @ \cup hidden,
               !.score = @ + 5 * Cardinality(hidden)]

\* cardsToMove.forEach(c => this.removeCardFromSource(gameState, c))
RECURSIVE RemoveAll(_, _, _)
RemoveAll(b, cardsToMove, k) ==
  IF k > Len(cardsToMove) THEN b
  ELSE RemoveAll(removeCardFromSource(b, cardsToMove[k]), cardsToMove, k + 1)

\* MoveResult: { success, newState, error? }
NoError == "undefined"
Rejected(b, error) ==
  [success |-> FALSE, threw |-> FALSE, newState |-> b, error |-> error]
Accepted(b) == [success |-> TRUE, threw |-> FALSE, newState |-> b, error |-> NoError]
\* a TypeError propagating out of the engine: no MoveResult is returned
Thrown(b) == [success |-> FALSE, threw |-> TRUE, newState |-> b, error |-> NoError]

\* moveToFoundation without the test for an Ace on an empty foundation
moveToFoundation_AnyFirstCard(b, move) ==
  LET card == findCard(b, move.cardId)
  IN IF card = NoCard THEN Rejected(b, "Card not found")
     ELSE LET foundation == b.foundations[Suit(card)]
          IN IF Len(foundation) > 0 /\ Value(card) # Value(Last(foundation)) + 1
             THEN Rejected(b, "Card must be next in sequence")
             ELSE LET removed == removeCardFromSource(b, card)
                      pushed == [removed EXCEPT !.foundations[Suit(card)] = Append(@, card),
                                                !.moves = @ + 1,
                                                !.score = @ + 10]
                  IN Accepted(revealHiddenCards(pushed))

\* moveToFoundation
moveToFoundation(b, move) ==
  LET card == findCard(b, move.cardId)
  IN IF card = NoCard THEN Rejected(b, "Card not found")
     ELSE LET foundation == b.foundations[Suit(card)]
          IN IF Len(foundation) = 0 /\ ~IsAce(card)
             THEN Rejected(b, "Only Ace can be placed on empty foundation")
             ELSE IF Len(foundation) > 0 /\ Value(card) # Value(Last(foundation)) + 1
             THEN Rejected(b, "Card must be next in sequence")
             ELSE LET removed == removeCardFromSource(b, card)
                      pushed == [removed EXCEPT !.foundations[Suit(card)] = Append(@, card),
                                                !.moves = @ + 1,
                                                !.score = @ + 10]
                  IN Accepted(revealHiddenCards(pushed))

\* moveToTableau
moveToTableau(b, move) ==
  LET card == findCard(b, move.cardId)
  IN IF card = NoCard \/ move.targetIndex = Undefined
     THEN Rejected(b, "Invalid move parameters")
     ELSE IF move.targetIndex \notin Columns THEN Thrown(b)
     ELSE IF ~canMoveToTableau(b, card, b.tableau[move.targetIndex])
     THEN Rejected(b, "Invalid tableau move")
     ELSE LET cardsToMove == getCardsToMove(b, card)
              removed == RemoveAll(b, cardsToMove, 1)
              pushed == [removed EXCEPT !.tableau[move.targetIndex] = @ \o cardsToMove,
                                        !.moves = @ + 1,
                                        !.score = @ + Len(cardsToMove)]
          IN Accepted(revealHiddenCards(pushed))

\* moveWasteToTableau
moveWasteToTableau(b, move) ==
  IF Len(b.waste) = 0 \/ move.targetIndex = Undefined
  THEN Rejected(b, "No waste card or invalid target")
  ELSE IF move.targetIndex \notin Columns THEN Thrown(b)
  ELSE LET card == Last(b.waste)
       IN IF ~canMoveToTableau(b, card, b.tableau[move.targetIndex])
          THEN Rejected(b, "Cannot move waste card to tableau")
          ELSE Accepted([b EXCEPT !.waste = SubSeq(@, 1, Len(@) - 1),
                                  !.tableau[move.targetIndex] = Append(@, card),
                                  !.moves = @ + 1,
                                  !.score = @ + 5])

\* executeMove: dispatch on move.type
executeMove(b, move) ==
  CASE move.type = "foundation" -> moveToFoundation(b, move)
    [] move.type = "tableau" -> moveToTableau(b, move)
    [] move.type = "waste-to-tableau" -> moveWasteToTableau(b, move)
    [] OTHER -> Rejected(b, "Invalid move type")

\* the entry makeMove pushes: copies of the pile arrays, holding the same
\* card objects
Snapshot(b) ==
  [stock |-> b.stock, waste |-> b.waste, foundations |-> b.foundations,
   tableau |-> b.tableau]

\* makeMove pushing the snapshot after the move has been executed
makeMove_SnapshotAfter(b, move) ==
  LET r == executeMove(b, move)
      pushed == [r EXCEPT !.newState.gameHistory = Append(@, Snapshot(r.newState))]
  IN IF r.success THEN [pushed EXCEPT !.newState.canUndo = TRUE] ELSE pushed

\* makeMove: push the snapshot, execute, set canUndo on success
makeMove(b, move) ==
  LET pushed == [b EXCEPT !.gameHistory = Append(@, Snapshot(b))]
      r == executeMove(pushed, move)
  IN IF r.success THEN [r EXCEPT !.newState.canUndo = TRUE] ELSE r

\* isValidMove: runs the executor's own handler on the caller's board
isValidMove(b, move) ==
  CASE move.type = "foundation" -> moveToFoundation(b, move)
    [] move.type = "tableau" -> moveToTableau(b, move)
    [] move.type = "waste-to-tableau" -> moveWasteToTableau(b, move)
    [] OTHER -> Rejected(b, NoError)

\* checkWinCondition: every foundation holds 13 cards
checkWinCondition(b) == \A s \in Suits : Len(b.foundations[s]) = NumRanks

\* undo without its test for an empty history: pop() returns undefined
undo_NoEmptyTest(b) ==
  IF Len(b.gameHistory) = 0 THEN Rejected(b, "Failed to restore previous state")
  ELSE LET previousState == Last(b.gameHistory)
           popped == SubSeq(b.gameHistory, 1, Len(b.gameHistory) - 1)
       IN Accepted([b EXCEPT !.stock = previousState.stock,
                             !.waste = previousState.waste,
                             !.foundations = previousState.foundations,
                             !.tableau = previousState.tableau,
                             !.gameHistory = popped,
                             !.canUndo = Len(popped) > 0])

\* undo
undo(b) ==
  IF Len(b.gameHistory) = 0 THEN Rejected(b, "No moves to undo")
  ELSE LET previousState == Last(b.gameHistory)
           popped == SubSeq(b.gameHistory, 1, Len(b.gameHistory) - 1)
       IN Accepted([b EXCEPT !.stock = previousState.stock,
                             !.waste = previousState.waste,
                             !.foundations = previousState.foundations,
                             !.tableau = previousState.tableau,
                             !.gameHistory = popped,
                             !.canUndo = Len(popped) > 0])

\* tableau columns whose top card exists and is face-up
OpenColumns(b) ==
  { c \in Columns : Len(b.tableau[c]) > 0 /\ Last(b.tableau[c]) \in b.faceUp }

\* getAllPossibleMoves proposing any face-up column top for an empty
\* foundation (the rank === 'A' test left out)
getAllPossibleMoves_AnyRank(b) ==
  { [type |-> "foundation", cardId |-> Last(b.tableau[c]), targetIndex |-> Undefined] :
      c \in { d \in OpenColumns(b) :
                LET topCard == Last(b.tableau[d])
                    foundation == b.foundations[Suit(topCard)]
                IN \/ Len(foundation) = 0
                   \/ Value(topCard) = Value(Last(foundation)) + 1 } }

\* getAllPossibleMoves (getPossibleMoves returns the same list): foundation
\* moves of face-up column tops, column-top to other-column moves, waste-top
\* to column moves; the Move fields the engine reads are kept
getAllPossibleMoves(b) ==
  { [type |-> "foundation", cardId |-> Last(b.tableau[c]), targetIndex |-> Undefined] :
      c \in { d \in OpenColumns(b) :
                LET topCard == Last(b.tableau[d])
                    foundation == b.foundations[Suit(topCard)]
                IN \/ Len(foundation) = 0 /\ IsAce(topCard)
                   \/ Len(foundation) > 0
                      /\ Value(topCard) = Value(Last(foundation)) + 1 } }
  \cup
  { [type |-> "tableau", cardId |-> Last(b.tableau[st[1]]), targetIndex |-> st[2]] :
      st \in { x \in OpenColumns(b) \X Columns :
                 x[1] # x[2]
                 /\ canMoveToTableau(b, Last(b.tableau[x[1]]), b.tableau[x[2]]) } }
  \cup
  { [type |-> "waste-to-tableau", cardId |-> Last(b.waste), targetIndex |-> t] :
      t \in { c \in Columns :
                Len(b.waste) > 0 /\ canMoveToTableau(b, Last(b.waste), b.tableau[c]) } }

(***************************************************************************)
(* The dealer on its own: no board yet, then one of the two constructors.  *)
(***************************************************************************)
InitDeal ==
  /\ gameState = NoBoard
  /\ result = NoResult
  /\ origin = "none"
  /\ before = NoBoard

CreateInitialGameState ==
  /\ origin = "none"
  /\ \E draws \in DealDraws : gameState' = createInitialGameState(draws)
  /\ origin' = "createInitialGameState"
  /\ UNCHANGED <<result, before>>

InitializeGame ==
  /\ origin = "none"
  /\ \E draws \in DealDraws : gameState' = initializeGame(draws)
  /\ origin' = "initializeGame"
  /\ UNCHANGED <<result, before>>

NextDeal == CreateInitialGameState \/ InitializeGame

SpecDeal == InitDeal /\ [][NextDeal]_vars

(***************************************************************************)
(* Play: a board dealt by createInitialGameState, then any sequence of     *)
(* makeMove, isValidMove and undo calls, each on the board the previous    *)
(* call returned.                                                          *)
(***************************************************************************)
\* the shuffles the explored games start from: the draws that leave the
\* deck in order, and one draw (i = 39, j = 1) that buries the ace of clubs
\* under the face-up card of column 1
PlayDraws == { IdentityDraws, DrawsWith(39, 1) }

\* the moves a caller passes
MoveTypes == { "foundation", "tableau", "waste-to-tableau", "stock" }
KingOfHearts == 1 * NumRanks + (NumRanks - 1)
CardIds == { c \in Cards : Value(c) <= MaxValue } \cup { KingOfHearts, UnknownCard }
TargetIndexes == { Undefined } \cup 0 .. NumColumns
Moves ==
  { [type |-> "foundation", cardId |-> c, targetIndex |-> Undefined] : c \in CardIds }
  \cup { [type |-> "tableau", cardId |-> c, targetIndex |-> t] :
           c \in CardIds, t \in TargetIndexes }
  \cup { [type |-> "waste-to-tableau", cardId |-> UnknownCard, targetIndex |-> t] :
           t \in TargetIndexes }
  \cup { [type |-> "stock", cardId |-> UnknownCard, targetIndex |-> Undefined] }

Init ==
  /\ \E draws \in PlayDraws : gameState = createInitialGameState(draws)
  /\ result = NoResult
  /\ origin = "createInitialGameState"
  /\ before = NoBoard

MakeMove ==
  /\ Len(gameState.gameHistory) < MaxHistory
  /\ gameState.moves < MaxMoves
  /\ \E move \in Moves : \E r \in { makeMove(gameState, move) } :
       /\ gameState' = r.newState
       /\ result' = [op |-> "makeMove", success |-> r.success, threw |-> r.threw,
                     move |-> IF r.success THEN move ELSE NoMove]
  /\ before' = gameState
  /\ UNCHANGED origin

IsValidMove ==
  /\ gameState.moves < MaxMoves
  /\ \E move \in Moves : \E r \in { isValidMove(gameState, move) } :
       /\ gameState' = r.newState
       /\ result' = [op |-> "isValidMove", success |-> r.success, threw |-> r.threw,
                     move |-> IF r.success THEN move ELSE NoMove]
  /\ before' = NoBoard
  /\ UNCHANGED origin

Undo ==
  /\ \E r \in { undo(gameState) } :
       /\ gameState' = r.newState
       /\ result' = [op |-> "undo", success |-> r.success, threw |-> r.threw,
                     move |-> NoMove]
  /\ before' = NoBoard
  /\ UNCHANGED origin

\* games driven through makeMove and undo
Next == MakeMove \/ Undo

Spec == Init /\ [][Next]_vars

\* games in which the caller also queries isValidMove; the exploration is
\* bounded to runs that end with their first query
BeforeQuery == result.op # "isValidMove"
NextQuery == BeforeQuery /\ (MakeMove \/ Undo \/ IsValidMove)

SpecQuery == Init /\ [][NextQuery]_vars

(***************************************************************************)
(* Endgame: the in-order deal after the 51 foundation moves that makeMove  *)
(* accepts one after the other, aces first and kings last, the king of     *)
(* hearts left on its column; then any sequence of makeMove and undo       *)
(* calls.                                                                  *)
(***************************************************************************)
\* number of moves played before the exploration starts
Played == DeckSize - 1

\* the cards in the order they are played: value by value, suit by suit,
\* without the king of hearts
ValueMajor == [p \in 1 .. DeckSize |-> ((p - 1) % 4) * NumRanks + ((p - 1) \div 4)]
IsPlayed(card) == card # KingOfHearts
ClearingOrder == SelectSeq(ValueMajor, IsPlayed)

\* makeMove called once for each of cards[first .. last], in that order,
\* each call on the board the previous call returned: the first half of the
\* calls, then the second half
RECURSIVE PlayToFoundation(_, _, _, _)
PlayToFoundation(b, cards, first, last) ==
  IF first > last \/ checkWinCondition(b) THEN b
  ELSE IF first = last
  THEN makeMove(b, [type |-> "foundation", cardId |-> cards[first],
                    targetIndex |-> Undefined]).newState
  ELSE LET half == (first + last) \div 2
       IN PlayToFoundation(PlayToFoundation(b, cards, first, half),
                           cards, half + 1, last)

Endgame ==
  PlayToFoundation(createInitialGameState(IdentityDraws), ClearingOrder, 1, Played)

InitEndgame ==
  /\ gameState = Endgame
  /\ result = NoResult
  /\ origin = "createInitialGameState"
  /\ before = NoBoard

\* makeMove, explored for MaxMoves accepted moves and MaxHistory entries
\* beyond the moves already played
LateMakeMove ==
  /\ Len(gameState.gameHistory) < Played + MaxHistory
  /\ gameState.moves < Played + MaxMoves
  /\ \E move \in Moves : \E r \in { makeMove(gameState, move) } :
       /\ gameState' = r.newState
       /\ result' = [op |-> "makeMove", success |-> r.success, threw |-> r.threw,
                     move |-> IF r.success THEN move ELSE NoMove]
  /\ before' = gameState
  /\ UNCHANGED origin

\* undo, explored for the entries pushed after the moves already played
LateUndo ==
  /\ Len(gameState.gameHistory) > Played
  /\ Undo

NextEndgame == LateMakeMove \/ LateUndo

SpecEndgame == InitEndgame /\ [][NextEndgame]_vars

(***************************************************************************)
(* Properties.                                                             *)
(***************************************************************************)
\* every pile of the board, one after the other
AllPiles(b) ==
  b.stock \o b.waste \o FlatFoundations(b.foundations) \o FlatTableau(b.tableau)

Occurrences(pile, card) == Cardinality({ p \in 1 .. Len(pile) : pile[p] = card })

\* the cards lying on top of a tableau column or of the waste
TopCards(b) ==
  { Last(b.tableau[c]) : c \in { d \in Columns : Len(b.tableau[d]) > 0 } }
  \cup { Last(pile) : pile \in { w \in { b.waste } : Len(w) > 0 } }

\* position p of the column starts or continues its face-up suffix
InFaceUpSuffix(b, c, p) ==
  \A q \in p .. Len(b.tableau[c]) : b.tableau[c][q] \in b.faceUp

\* C1 - Conservation: in every state reached from a createInitialGameState
\* deal by makeMove (accepted or rejected) and undo calls, stock, waste,
\* foundations and tableau together hold exactly 52 cards and every card
\* exactly once.
C1_Conservation ==
  /\ Len(AllPiles(gameState)) = DeckSize
  /\ \A card \in Cards : Occurrences(AllPiles(gameState), card) = 1

\* an accepted move has been undone after at least two moves were accepted
C1_Witness ==
  /\ result.op = "undo" /\ result.success
  /\ gameState.moves >= 2
  /\ Len(gameState.stock) < DeckSize - TableauCards

\* C2 - Foundation ordering: in every reachable state each foundation holds
\* only cards of its own suit and the card at index i has value i + 1.
C2_FoundationOrdering ==
  \A s \in Suits : \A i \in 1 .. Len(gameState.foundations[s]) :
    /\ Suit(gameState.foundations[s][i]) = s
    /\ Value(gameState.foundations[s][i]) = i

\* the piles, flags, counters and history the undo claim compares
Comparable(b) ==
  [stock |-> b.stock, waste |-> b.waste, foundations |-> b.foundations,
   tableau |-> b.tableau, faceUp |-> b.faceUp, score |-> b.score,
   moves |-> b.moves, gameHistory |-> b.gameHistory]

\* C3 - Undo correctness: undo applied to the board an accepted makeMove
\* returned yields the board that makeMove was called on: same piles, same
\* faceUp flags, same score, same move counter, same history.
C3_UndoRestores ==
  [][(result.op = "makeMove" /\ result.success /\ result'.op = "undo")
       => Comparable(gameState') = Comparable(before)]_vars

\* C4 - Idempotent rejection: a makeMove that returns success = false leaves
\* the board as it was: piles, faceUp flags, score, move counter, canUndo and
\* history.
C4_RejectionLeavesBoard ==
  [][(result'.op = "makeMove" /\ ~result'.success /\ ~result'.threw)
       => gameState' = gameState]_vars

\* C5 - Enumerator soundness: every move getAllPossibleMoves returns for a
\* reachable board is judged legal by isValidMove and accepted by makeMove on
\* that board.
C5_EnumeratorSound ==
  \A move \in getAllPossibleMoves(gameState) :
    /\ isValidMove(gameState, move).success
    /\ makeMove(gameState, move).success

\* after some accepted move the enumerator proposes both a foundation move
\* and a column-to-column move
C5_Witness ==
  /\ gameState.moves >= 1
  /\ \E move \in getAllPossibleMoves(gameState) : move.type = "foundation"
  /\ \E move \in getAllPossibleMoves(gameState) : move.type = "tableau"

\* C6 - Source eligibility: a card that an accepted makeMove puts on a
\* foundation was, when the move was requested, the top card of a tableau
\* column or the top card of the waste.
C6_FoundationFromTop ==
  [][(result'.op = "makeMove" /\ result'.success)
       => \A s \in Suits :
            Len(gameState'.foundations[s]) > Len(gameState.foundations[s])
              => Last(gameState'.foundations[s]) \in TopCards(gameState)]_vars

\* C7 - Tableau run invariant: in every reachable state, within the face-up
\* suffix of a column each card is one lower in value than, and of opposite
\* colour to, the card beneath it.
C7_TableauRuns ==
  \A c \in Columns : \A p \in 2 .. Len(gameState.tableau[c]) :
    InFaceUpSuffix(gameState, c, p - 1)
      => /\ Value(gameState.tableau[c][p]) = Value(gameState.tableau[c][p - 1]) - 1
         /\ IsRed(gameState.tableau[c][p]) # IsRed(gameState.tableau[c][p - 1])

\* C8 - isValidMove is a pure predicate: a call of isValidMove, whatever it
\* returns, leaves piles, faceUp flags, score, move counter and history as
\* they were.
C8_IsValidMovePure ==
  [][result'.op = "isValidMove" => gameState' = gameState]_vars

\* C9 - the board GameEngine.initializeGame returns holds each of the 52
\* cards in exactly one pile (28 in the tableau, 24 in the stock), every stock
\* card face-down.
C9_InitializeGamePartition ==
  origin = "initializeGame"
    => /\ \A card \in Cards : Occurrences(AllPiles(gameState), card) = 1
       /\ Len(FlatTableau(gameState.tableau)) = TableauCards
       /\ Len(gameState.stock) = DeckSize - TableauCards
       /\ \A p \in 1 .. Len(gameState.stock) : gameState.stock[p] \notin gameState.faceUp

\* C10 - Deal layout: createInitialGameState gives column i exactly i + 1
\* cards of which only the top one is face-up, puts the other 24 cards in the
\* stock face-down, leaves waste and foundations empty and uses every card
\* exactly once.
C10_DealLayout ==
  origin = "createInitialGameState"
    => /\ \A c \in Columns :
            /\ Len(gameState.tableau[c]) = c + 1
            /\ \A p \in 1 .. (c + 1) :
                 (gameState.tableau[c][p] \in gameState.faceUp) <=> (p = c + 1)
       /\ Len(gameState.stock) = DeckSize - TableauCards
       /\ \A p \in 1 .. Len(gameState.stock) : gameState.stock[p] \notin gameState.faceUp
       /\ gameState.waste = <<>>
       /\ gameState.foundations = EmptyFoundations
       /\ \A card \in Cards : Occurrences(AllPiles(gameState), card) = 1

\* a deal of a deck the shuffle has changed: the king of clubs was drawn
\* into the tableau
C10_Witness ==
  /\ origin = "createInitialGameState"
  /\ \E c \in Columns : Contains(gameState.tableau[c], DeckSize - 1)

\* the move the board component passes when the stock pile is clicked
StockMove == [type |-> "stock", cardId |-> UnknownCard, targetIndex |-> Undefined]

\* the last n cards of a pile, top first
RECURSIVE Drawn(_, _)
Drawn(pile, n) ==
  IF n = 0 \/ Len(pile) = 0 THEN <<>>
  ELSE <<Last(pile)>> \o Drawn(SubSeq(pile, 1, Len(pile) - 1), n - 1)

\* C11 - Stock draw and recycle: on every reachable board a stock move is
\* accepted by makeMove iff the stock is non-empty, and an accepted draw
\* moves 1 or 3 cards from the stock onto the waste face-up; with the stock
\* empty and the waste non-empty the move returns all waste cards to the
\* stock face-down.
C11_StockDraw ==
  LET r == makeMove(gameState, StockMove)
      after == r.newState
  IN /\ Len(gameState.stock) > 0
          => /\ r.success
             /\ \E n \in { 1, 3 } :
                  /\ after.waste = gameState.waste \o Drawn(gameState.stock, n)
                  /\ after.stock = SubSeq(gameState.stock, 1,
                                     Len(gameState.stock) - Len(Drawn(gameState.stock, n)))
                  /\ \A p \in 1 .. Len(Drawn(gameState.stock, n)) :
                       Drawn(gameState.stock, n)[p] \in after.faceUp
     /\ (Len(gameState.stock) = 0 /\ Len(gameState.waste) > 0)
          => /\ after.waste = <<>>
             /\ Len(after.stock) = Len(gameState.waste)
             /\ \A p \in 1 .. Len(after.stock) : after.stock[p] \notin after.faceUp
     /\ (Len(gameState.stock) = 0 /\ Len(gameState.waste) = 0) => ~r.success

\* the card a tableau-bound move places on the column: the named card, or
\* the top of the waste
HeadCard(b, move) ==
  IF move.type = "tableau" THEN findCard(b, move.cardId)
  ELSE IF Len(b.waste) > 0 THEN Last(b.waste) ELSE NoCard

\* the column accepts the head card by the rules of the game
ColumnTakes(b, head, pile) ==
  \/ Len(pile) = 0 /\ IsKing(head)
  \/ /\ Len(pile) > 0
     /\ Last(pile) \in b.faceUp
     /\ IsRed(Last(pile)) # IsRed(head)
     /\ Value(Last(pile)) = Value(head) + 1

\* C12 - Tableau acceptance: a move onto a tableau column that makeMove
\* accepted, whatever pile its card lay in, found the column empty and its
\* head card a King, or found the column's top card face-up, of opposite
\* colour and one higher in value than the head card; and on every reachable
\* board a King aimed at a non-empty column is rejected and the column keeps
\* its cards.
C12_TableauAcceptance ==
  /\ (result.op = "makeMove" /\ result.move.type \in { "tableau", "waste-to-tableau" })
       => /\ HeadCard(before, result.move) \in Cards
          /\ result.move.targetIndex \in Columns
          /\ ColumnTakes(before, HeadCard(before, result.move),
                         before.tableau[result.move.targetIndex])
  /\ \A t \in Columns :
       (findCard(gameState, KingOfHearts) # NoCard /\ Len(gameState.tableau[t]) > 0)
         => LET r == makeMove(gameState,
                       [type |-> "tableau", cardId |-> KingOfHearts, targetIndex |-> t])
            IN ~r.success /\ r.newState.tableau[t] = gameState.tableau[t]

\* a move onto a column has been accepted, and on the board it produced the
\* king of hearts can be aimed at a non-empty column
C12_Witness ==
  /\ result.op = "makeMove" /\ result.move.type = "tableau"
  /\ \E c \in Columns : Len(gameState.tableau[c]) > Len(before.tableau[c])
  /\ \E c \in Columns : Contains(gameState.tableau[c], KingOfHearts)

\* the foundation of the card's suit accepts the card by the rules of the
\* game
FoundationTakes(b, card) ==
  LET foundation == b.foundations[Suit(card)]
  IN \/ Len(foundation) = 0 /\ IsAce(card)
     \/ Len(foundation) > 0 /\ Value(Last(foundation)) = Value(card) - 1

\* C13 - Foundation acceptance: on every reachable board, for every card on
\* top of the waste or of a tableau column, makeMove accepts the card's
\* foundation move iff the foundation of its suit is empty and the card is an
\* Ace, or that foundation's top card is one lower in value; after acceptance
\* the card is the last card of the foundation of its suit and lies in no
\* other pile.
C13_FoundationAcceptance ==
  \A card \in TopCards(gameState) :
    LET r == makeMove(gameState,
               [type |-> "foundation", cardId |-> card, targetIndex |-> Undefined])
        after == r.newState
    IN /\ r.success <=> FoundationTakes(gameState, card)
       /\ r.success
            => /\ Len(after.foundations[Suit(card)]) > 0
               /\ Last(after.foundations[Suit(card)]) = card
               /\ ~Contains(after.stock \o after.waste \o FlatTableau(after.tableau), card)
               /\ Occurrences(FlatFoundations(after.foundations), card) = 1

\* makeMove has put a column's top card on a foundation that already held a
\* card
C13_Witness ==
  /\ result.op = "makeMove" /\ result.move.type = "foundation"
  /\ result.move.cardId \in TopCards(before)
  /\ Len(before.foundations[Suit(result.move.cardId)]) > 0

\* C14 - Win flag accuracy: on the board a successful makeMove or a
\* successful undo returned, isWon is true iff all four foundations hold 13
\* cards.
C14_WinFlag ==
  (result.op \in { "makeMove", "undo" } /\ result.success)
    => (gameState.isWon <=> checkWinCondition(gameState))

\* C15 - Won is terminal for moves: a makeMove called on a board whose four
\* foundations hold 13 cards each is rejected or leaves every pile as it was,
\* and the foundations still hold 13 cards each on the board it returns.
C15_WonIsTerminal ==
  (result.op = "makeMove" /\ checkWinCondition(before))
    => /\ ~result.success \/ Snapshot(gameState) = Snapshot(before)
       /\ checkWinCondition(gameState)

\* C16 - Undo on an empty history: on every reachable board whose history
\* is empty, undo returns success = false with the error 'No moves to undo'
\* and returns the board as it was: piles, score, move counter, canUndo and
\* the empty history.
C16_UndoOnEmptyHistory ==
  Len(gameState.gameHistory) = 0
    => LET r == undo(gameState)
       IN /\ ~r.success /\ ~r.threw
          /\ r.error = "No moves to undo"
          /\ r.newState = gameState

\* undo has failed on a board that had moves played and undone
C16_Witness ==
  /\ result.op = "undo" /\ ~result.success
  /\ Len(gameState.gameHistory) = 0
  /\ gameState.moves >= 1

\* C17 - Undo is a LIFO pop of pile contents: on every reachable board with
\* a non-empty history, undo succeeds, removes the last history entry and
\* leaves the earlier ones, and returns a board whose stock, waste,
\* foundations and tableau hold the card ids of that entry in the same
\* order; so undo after an accepted makeMove returns the piles that
\* makeMove was called on.
C17_UndoPops ==
  /\ Len(gameState.gameHistory) > 0
       => LET r == undo(gameState)
          IN /\ r.success
             /\ r.newState.gameHistory
                  = SubSeq(gameState.gameHistory, 1, Len(gameState.gameHistory) - 1)
             /\ Snapshot(r.newState) = Last(gameState.gameHistory)
  /\ (result.op = "makeMove" /\ result.success)
       => Snapshot(undo(gameState).newState) = Snapshot(before)

\* makeMove has accepted a move that changed the piles, on a board whose
\* history already held an entry
C17_Witness ==
  /\ result.op = "makeMove" /\ result.success
  /\ Len(gameState.gameHistory) >= 2
  /\ Snapshot(gameState) # Snapshot(before)

\* the cards a history entry refers to
EntryCards(entry) ==
  LET pile == entry.stock \o entry.waste \o FlatFoundations(entry.foundations)
                \o FlatTableau(entry.tableau)
  IN { pile[p] : p \in 1 .. Len(pile) }

\* what a reader of a history entry sees: the order of its cards and the
\* faceUp flag of each of them
Observed(entry, faceUp) == [piles |-> entry, faceUp |-> faceUp \cap EntryCards(entry)]

\* C18 - History entries are deep snapshots: the entry a makeMove call
\* pushes shows the piles of the board the call was made on, card order and
\* faceUp flags, and a makeMove or isValidMove call (with the reveal it
\* performs) leaves every entry pushed earlier showing what it showed
\* before the call.
C18_DeepSnapshots ==
  [][result'.op \in { "makeMove", "isValidMove" }
       => /\ \A k \in 1 .. Len(gameState.gameHistory) :
               /\ k <= Len(gameState'.gameHistory)
               /\ Observed(gameState'.gameHistory[k], gameState'.faceUp)
                    = Observed(gameState.gameHistory[k], gameState.faceUp)
          /\ result'.op = "makeMove"
               => /\ Len(gameState'.gameHistory) = Len(gameState.gameHistory) + 1
                  /\ Observed(Last(gameState'.gameHistory), gameState'.faceUp)
                       = Observed(Snapshot(gameState), gameState.faceUp)]_vars

\* C19 - faceUp is monotone outside undo: across a makeMove or isValidMove
\* call, accepted or rejected, every card that was face-up stays face-up,
\* and a card that was face-down and is face-up afterwards is the top card
\* of a tableau column of the board the call returned.
C19_FaceUpMonotone ==
  [][result'.op \in { "makeMove", "isValidMove" }
       => /\ gameState.faceUp \subseteq gameState'.faceUp
          /\ \A card \in gameState'.faceUp \ gameState.faceUp :
               \E c \in Columns :
                 /\ Len(gameState'.tableau[c]) > 0
                 /\ Last(gameState'.tableau[c]) = card]_vars

\* an isValidMove call has turned a card face-up after makeMove had done so
C19_Witness ==
  /\ result.op = "isValidMove" /\ result.success
  /\ Cardinality(gameState.faceUp) >= NumColumns + 2

\* C20 - No engine entry point crashes: no makeMove, isValidMove or undo
\* call, whatever move it is given, ends by throwing; each returns a result,
\* and a makeMove call that reports failure leaves every pile as it was.
C20_NoCrash ==
  /\ ~result.threw
  /\ (result.op = "makeMove" /\ ~result.success)
       => Snapshot(gameState) = Snapshot(before)

(***************************************************************************)
(* Games on a deal in which a run can be built and moved within a few      *)
(* moves: the shuffle whose draw (i = 41, j = 7) leaves the three of clubs *)
(* face-up on column 1, next to the ace of spades on column 0 and the two  *)
(* of diamonds on column 6.                                                *)
(***************************************************************************)
RunDraws == DrawsWith(41, 7)

InitRuns ==
  /\ gameState = createInitialGameState(RunDraws)
  /\ result = NoResult
  /\ origin = "createInitialGameState"
  /\ before = NoBoard

SpecRuns == InitRuns /\ [][Next]_vars

\* the cards of column c from position p on are face-up and built down in
\* alternating colours
IsRun(b, c, p) ==
  /\ InFaceUpSuffix(b, c, p)
  /\ \A q \in p .. Len(b.tableau[c]) - 1 :
       /\ IsRed(b.tableau[c][q]) # IsRed(b.tableau[c][q + 1])
       /\ Value(b.tableau[c][q]) = Value(b.tableau[c][q + 1]) + 1

\* the move takes the top card of the waste or of a tableau column, or a
\* face-up run of a tableau column aimed at another column
FromTopOrRun(b, move) ==
  \/ /\ move.type = "waste-to-tableau"
     /\ Len(b.waste) > 0
  \/ /\ move.type \in { "foundation", "tableau" }
     /\ move.cardId \in TopCards(b)
  \/ /\ move.type = "tableau"
     /\ \E c \in Columns : \E p \in 1 .. Len(b.tableau[c]) :
          /\ b.tableau[c][p] = move.cardId
          /\ IsRun(b, c, p)
          /\ move.targetIndex # c

\* C21 - Enumerator completeness: a move that makeMove accepted and that
\* took the top card of the waste, the top card of a tableau column or a
\* face-up run of a tableau column is in the list getAllPossibleMoves
\* returns for the board the call was made on, and that list holds at most
\* one stock action.
C21_EnumeratorComplete ==
  /\ (result.op = "makeMove" /\ result.success /\ FromTopOrRun(before, result.move))
       => result.move \in getAllPossibleMoves(before)
  /\ Cardinality({ m \in getAllPossibleMoves(gameState) : m.type = "stock" }) <= 1

(***************************************************************************)
(* Games in which the caller uses every public operation that takes the    *)
(* board: makeMove, undo, isValidMove, getPossibleMoves and updateScore.   *)
(* The exploration is bounded to runs that end with their first call of    *)
(* one of the last three.                                                  *)
(***************************************************************************)
\* updateScore
updateScore(b) == [b EXCEPT !.score = 0]

\* getPossibleMoves
getPossibleMoves(b) == getAllPossibleMoves(b)

\* result.success records whether the list returned holds a move
GetPossibleMoves ==
  /\ gameState.moves < MaxMoves
  /\ \E list \in { getPossibleMoves(gameState) } :
       result' = [op |-> "getPossibleMoves", success |-> list # {}, threw |-> FALSE,
                  move |-> NoMove]
  /\ before' = NoBoard
  /\ UNCHANGED <<gameState, origin>>

UpdateScore ==
  /\ gameState.moves < MaxMoves
  /\ gameState' = updateScore(gameState)
  /\ result' = [op |-> "updateScore", success |-> TRUE, threw |-> FALSE, move |-> NoMove]
  /\ before' = NoBoard
  /\ UNCHANGED origin

BeforeLastCall == result.op \notin { "isValidMove", "getPossibleMoves", "updateScore" }
NextPublic ==
  BeforeLastCall /\ (MakeMove \/ Undo \/ IsValidMove \/ GetPossibleMoves \/ UpdateScore)

SpecPublic == Init /\ [][NextPublic]_vars

\* C22 - Score monotonicity: across every call of a public operation on the
\* board (makeMove accepted or rejected, undo, isValidMove, getPossibleMoves,
\* updateScore) the score does not decrease; the engine has no penalty move.
C22_ScoreMonotone ==
  [][gameState'.score >= gameState.score]_vars

(***************************************************************************)
(* Two games created one after the other. createInitialGameState takes no  *)
(* argument, so a caller has no seed to give: the two calls are made with  *)
(* the same (absent) seed, and each shuffle takes its own Math.random      *)
(* draws.                                                                  *)
(***************************************************************************)
\* the first game: before keeps no board yet
NewGame ==
  /\ origin = "none"
  /\ \E draws \in DealDraws : gameState' = createInitialGameState(draws)
  /\ origin' = "createInitialGameState"
  /\ result' = [op |-> "newGame", success |-> TRUE, threw |-> FALSE, move |-> NoMove]
  /\ UNCHANGED before

\* the second game: before keeps the board of the first
NewGameAgain ==
  /\ origin = "createInitialGameState"
  /\ before = NoBoard
  /\ \E draws \in DealDraws : gameState' = createInitialGameState(draws)
  /\ before' = gameState
  /\ result' = [op |-> "newGame", success |-> TRUE, threw |-> FALSE, move |-> NoMove]
  /\ UNCHANGED origin

NextRedeal == NewGame \/ NewGameAgain

SpecRedeal == InitDeal /\ [][NextRedeal]_vars

\* C23 - Deterministic deal: a game created after another one with the same
\* seed has the same layout, the same cards in the same order in each of
\* the seven tableau columns and in the stock.
C23_DeterministicDeal ==
  before # NoBoard
    => /\ gameState.tableau = before.tableau
       /\ gameState.stock = before.stock

\* C24 - Run moves as a block: an accepted tableau-to-tableau move naming
\* the card at index k of source column S with target column T, S # T,
\* leaves S as its first k cards and T as its previous cards followed by
\* the cards of S from index k on, in the same order; stock, waste,
\* foundations and the other five columns keep their cards in their order.
C24_RunMovesAsBlock ==
  \A S \in Columns :
    ( /\ result.op = "makeMove" /\ result.move.type = "tableau"
      /\ Contains(before.tableau[S], result.move.cardId)
      /\ result.move.targetIndex # S )
      => LET T == result.move.targetIndex
             k == FindIndex(before.tableau[S], result.move.cardId) - 1
         IN /\ gameState.tableau[S] = SubSeq(before.tableau[S], 1, k)
            /\ gameState.tableau[T]
                 = before.tableau[T]
                     \o SubSeq(before.tableau[S], k + 1, Len(before.tableau[S]))
            /\ \A c \in Columns \ { S, T } : gameState.tableau[c] = before.tableau[c]
            /\ gameState.stock = before.stock
            /\ gameState.waste = before.waste
            /\ gameState.foundations = before.foundations

\* makeMove has moved a face-up run of two or more cards from one column
\* to another
C24_Witness ==
  /\ result.op = "makeMove" /\ result.move.type = "tableau"
  /\ \E S \in Columns :
       /\ Contains(before.tableau[S], result.move.cardId)
       /\ IsRun(before, S, FindIndex(before.tableau[S], result.move.cardId))
       /\ result.move.targetIndex # S
       /\ Len(before.tableau[S]) - Len(gameState.tableau[S]) >= 2

\* C25 - Face-down cards are unreachable: the card an accepted foundation
\* or tableau move named, alone or as the head of the block it moved, was
\* face-up on the board the move was requested on; a move naming a card of
\* the stock or a face-down card of a column is rejected.
C25_FaceDownUnreachable ==
  (result.op = "makeMove" /\ result.move.type \in { "foundation", "tableau" })
    => /\ result.move.cardId \in before.faceUp
       /\ ~Contains(before.stock, result.move.cardId)

\* the number of cards a tableau move relocates: the named card and the
\* cards lying on it in its column, or the named card alone
BlockSize(b, card) ==
  IF \E c \in Columns : Contains(b.tableau[c], card)
  THEN LET c == CHOOSE d \in Columns : Contains(b.tableau[d], card)
       IN Len(b.tableau[c]) - FindIndex(b.tableau[c], card) + 1
  ELSE 1

\* the score an accepted move earns by its kind
Tariff(b, move) ==
  CASE move.type = "foundation" -> 10
    [] move.type = "waste-to-tableau" -> 5
    [] move.type = "tableau" -> BlockSize(b, move.cardId)
    [] OTHER -> 0

\* the accepted move took its cards from a column whose new top card was
\* face-down when the move was requested
ExposedColumns(b, move, after) ==
  { c \in Columns :
      /\ move.type \in { "foundation", "tableau" }
      /\ Contains(b.tableau[c], move.cardId)
      /\ Len(after.tableau[c]) > 0
      /\ Last(after.tableau[c]) \notin b.faceUp }

\* C26 - Reveal: when an accepted move takes cards from a tableau column
\* and that column's new top card is face-down, the card is face-up after
\* the move and the score holds the +5 reveal bonus once on top of the
\* move's own score; an accepted move that exposes no face-down top card in
\* its source column earns no reveal bonus.
C26_Reveal ==
  (result.op = "makeMove" /\ result.success)
    => LET bonus == gameState.score - before.score - Tariff(before, result.move)
           exposed == ExposedColumns(before, result.move, gameState)
       IN /\ \A c \in exposed :
               /\ Last(gameState.tableau[c]) \in gameState.faceUp
               /\ bonus = 5
          /\ exposed = {} => bonus = 0

\* C27 - Counter and tariff: an accepted makeMove raises the move counter
\* by exactly 1 and the score by 10 for a foundation placement, by 5 for a
\* waste-to-tableau move and by 1 per card moved for a tableau-to-tableau
\* move, plus 5 for each card the move turned face-up; a rejected makeMove
\* changes neither the move counter nor the score.
C27_CounterAndTariff ==
  result.op = "makeMove"
    => IF result.success
       THEN /\ gameState.moves = before.moves + 1
            /\ gameState.score
                 = before.score + Tariff(before, result.move)
                     + 5 * Cardinality(gameState.faceUp \ before.faceUp)
       ELSE /\ gameState.moves = before.moves
            /\ gameState.score = before.score

\* makeMove has moved a face-up block of two cards that uncovered a
\* face-down card
C27_Witness ==
  /\ result.op = "makeMove" /\ result.move.type = "tableau"
  /\ result.move.cardId \in before.faceUp
  /\ BlockSize(before, result.move.cardId) >= 2
  /\ gameState.faceUp # before.faceUp
  /\ gameState.score >= before.score + 7

\* C28 - Tableau tops are face-up: in every state reachable from a
\* createInitialGameState deal through makeMove, isValidMove and undo, the
\* top card of every non-empty tableau column is face-up.
C28_TopsFaceUp ==
  \A c \in Columns :
    Len(gameState.tableau[c]) > 0 => Last(gameState.tableau[c]) \in gameState.faceUp

\* undo has put back the cards of a move that had uncovered a face-down
\* card
C28_Witness ==
  /\ result.op = "undo" /\ result.success
  /\ Cardinality(gameState.faceUp) > NumColumns
  /\ \E c \in Columns : Len(gameState.tableau[c]) > 0

\* C29 - canUndo tracks the history: on the board a makeMove call, accepted
\* or rejected, or an undo call returned in a game started from a new deal,
\* canUndo is true exactly when the history holds an entry.
C29_CanUndoTracksHistory ==
  result.op \in { "makeMove", "undo" }
    => (gameState.canUndo <=> Len(gameState.gameHistory) > 0)

(***************************************************************************)
(* TensorFlowMLEngine: the move generator behind getBestMove. A move it    *)
(* builds has type, cardId, fromLocation, toLocation, fromPosition and     *)
(* toPosition and no targetIndex; the fields the game engine reads and the *)
(* destination are kept.                                                   *)
(***************************************************************************)
\* isValidTableauMove(card, targetColumn)
isValidTableauMove(b, card, targetColumn) ==
  IF Len(targetColumn) = 0 THEN Value(card) = 13
  ELSE LET topCard == Last(targetColumn)
       IN IF topCard \notin b.faceUp THEN FALSE
          ELSE IsRed(card) # IsRed(topCard) /\ Value(card) = Value(topCard) - 1

\* isValidFoundationMove(card, foundations)
isValidFoundationMove(card, foundations) ==
  LET foundation == foundations[Suit(card)]
  IN IF Len(foundation) = 0 THEN Value(card) = 1
     ELSE LET topCard == Last(foundation)
          IN Suit(card) = Suit(topCard) /\ Value(card) = Value(topCard) + 1

\* the moves taking card from a pile of kind moveType to every column and
\* foundation that the two predicates admit; skip is the card's own column;
\* copyTarget says whether targetIndex is given the value of toPosition
MovesOf(b, moveType, card, skip, copyTarget) ==
  { [type |-> moveType, cardId |-> card, toLocation |-> "tableau",
     toPosition |-> t, targetIndex |-> IF copyTarget THEN t ELSE Undefined] :
      t \in { c \in Columns \ { skip } : isValidTableauMove(b, card, b.tableau[c]) } }
  \cup
  { [type |-> moveType, cardId |-> card, toLocation |-> "foundation",
     toPosition |-> s, targetIndex |-> IF copyTarget THEN s ELSE Undefined] :
      s \in { f \in { Suit(card) } : isValidFoundationMove(card, b.foundations) } }

\* the list generatePossibleMoves builds
GeneratedMoves(b, copyTarget) ==
  (IF Len(b.stock) > 0
   THEN { [type |-> "stock", cardId |-> b.stock[1], toLocation |-> "waste",
           toPosition |-> Len(b.waste), targetIndex |-> Undefined] }
   ELSE {})
  \cup
  (IF Len(b.waste) > 0
   THEN MovesOf(b, "waste", Last(b.waste), Undefined, copyTarget)
   ELSE {})
  \cup
  UNION { MovesOf(b, "tableau", Last(b.tableau[c]), c, copyTarget) :
            c \in { d \in Columns : Len(b.tableau[d]) > 0 } }

\* generatePossibleMoves writing the destination into targetIndex as well
generatePossibleMoves_WithTargetIndex(b) == GeneratedMoves(b, TRUE)

\* generatePossibleMoves: no move is given a targetIndex; getBestMove
\* returns the first move of this list
generatePossibleMoves(b) == GeneratedMoves(b, FALSE)

\* C30 - Hints are never playable: on every reachable board no move that
\* TensorFlowMLEngine.generatePossibleMoves produces, and so no hint of
\* getBestMove, is accepted by isValidMove or by makeMove on that board: its
\* stock and waste moves have no engine handler and its tableau moves carry
\* no targetIndex.
C30_HintsRejected ==
  \A move \in generatePossibleMoves(gameState) :
    /\ ~makeMove(gameState, move).success
    /\ ~isValidMove(gameState, move).success

\* after an accepted move the generator proposes a stock move, a move
\* between two columns and a move to a foundation
C30_Witness ==
  /\ result.op = "makeMove" /\ result.success
  /\ \E move \in generatePossibleMoves(gameState) : move.type = "stock"
  /\ \E move \in generatePossibleMoves(gameState) :
       move.type = "tableau" /\ move.toLocation = "tableau"
  /\ \E move \in generatePossibleMoves(gameState) :
       move.type = "tableau" /\ move.toLocation = "foundation"

====
